---- MODULE Spec2Model ----
(***************************************************************************)
(* Conversation state synchronizer of the chat client:                     *)
(*   SocketService  (services/socket.ts,     src/unnamed/part_001 1-138)   *)
(*   ChatProvider   (contexts/ChatContext,   src/unnamed/part_001 140-498) *)
(*   AuthProvider   (contexts/AuthContext,   src/unnamed/part_002 1-178)   *)
(*   ChatArea       (src/src/components/chat/ChatArea.tsx)                 *)
(*                                                                         *)
(* JavaScript is single threaded: every action below is one event handler, *)
(* one resolved promise continuation or one React commit with the effects  *)
(* it flushes.  A handler registered on the socket is the closure of the   *)
(* render that registered it, so the currentChat it reads is the one       *)
(* captured at registration (hChat), not the live state.                   *)
(***************************************************************************)
EXTENDS Integers, Sequences, FiniteSets, TLC

\* ------------------------------------------------------------------ bounds
MaxTimeline == 3      \* longest timeline explored
MaxInFlight == 2      \* page loads in flight at once
MaxUnread   == 1      \* largest unread counter explored
PageLimit   == 1      \* messages per page (the transport's limit, 50, scaled down)
MaxTime     == 5      \* last instant of the local clock
MaxReceipts == 2      \* longest read-receipt list explored
MaxCalls    == 1      \* commands (send, edit, ...) in flight at once
MaxKeys     == 3      \* typing inputs (input changes to a text) explored

\* ------------------------------------------------------- program constants
TypingHorizon == 3    \* typing horizon, 3000 ms = 3 time units

\* -------------------------------------------------------------- universes
Chats  == {"c1", "c2"}
Users  == {"u8", "u9"}
MsgIds == {"m1", "m2", "n1"}
NoChat == "null"          \* currentChat === null / ref.current === null
Undef  == "undefined"     \* a field that is absent on the wire
NoTime == -1              \* deletedAt of a message that carries none

\* The server's messages: owning conversation, creation time, text.
ChatOf(id)    == IF id = "n1" THEN "c2" ELSE "c1"
CreatedAt(id) == CASE id = "m1" -> 1 [] id = "m2" -> 2 [] OTHER -> 2
TextOf(id)    == "hi"
Texts         == {"hi", "yo"}       \* the text as sent, and an edited text

\* Reaction lists a reaction event may carry (MessageReaction: emoji, users,
\* count), and the read times a message_read event may carry.
Reaction(emoji, users) == [emoji |-> emoji, users |-> users, count |-> Len(users)]
ReactionLists ==
  { << >>, << Reaction("+1", << "u8" >>) >>,
    << Reaction("+1", << "u8", "u9" >>), Reaction("ok", << "u9" >>) >> }
ReadTimes == {3}

\* What the server knows of a user's presence (User: status, statusMessage,
\* lastSeen), as a user_status_changed event or a fetched chat carries it.
Profile(status, statusMessage, lastSeen) ==
  [status |-> status, statusMessage |-> statusMessage, lastSeen |-> lastSeen]
Offline  == Profile("offline", Undef, 0)
Profiles == { Offline, Profile("online", Undef, 1), Profile("away", "brb", 2) }
AllOffline == [u \in Users |-> Offline]

\* A participant record, and the absent otherParticipant.
Participant(u, profile) ==
  [_id |-> u, status |-> profile.status, statusMessage |-> profile.statusMessage,
   lastSeen |-> profile.lastSeen]
NoParticipant == [_id |-> Undef, status |-> Undef, statusMessage |-> Undef, lastSeen |-> NoTime]

\* The users of a chat object the server sends while it knows the users'
\* presence as st: c1 is the direct chat with u8, c2 a group with u8 and u9;
\* u0 is the user of this client.
Me == Participant("u0", Profile("online", Undef, 1))
ChatUsers(c, st) ==
  IF c = "c1"
    THEN [participants |-> << Me, Participant("u8", st["u8"]) >>,
          otherParticipant |-> Participant("u8", st["u8"])]
    ELSE [participants |-> << Me, Participant("u8", st["u8"]), Participant("u9", st["u9"]) >>,
          otherParticipant |-> NoParticipant]
NoChatObj == [participants |-> << >>, otherParticipant |-> NoParticipant]

\* Timeouts are named by the typing input that armed them, from 1; 0 is no
\* timeout (null).
NoTimer == 0

\* ------------------------------------------------------------ wire shapes
\* A wire record m: chat is a string id, an embedded object or absent; the
\* legacy alias chatId may be present; content is a string, a legacy
\* {text} wrapper or something else.  The record may arrive wrapped as
\* {data: m} or {message: m}.
\* reactions and readBy are arrays or absent (lists).  The record carries a
\* delivery status (Message.status: sent, delivered, read).
Statuses == << "sent", "delivered", "read" >>
StatusRank(s) == CHOOSE i \in DOMAIN Statuses : Statuses[i] = s

WireShapes ==
  { [wrap |-> "none",    chat |-> "str",   alias |-> FALSE, content |-> "str",  lists |-> TRUE,
     status |-> "sent"],
    [wrap |-> "data",    chat |-> "obj",   alias |-> FALSE, content |-> "text", lists |-> FALSE,
     status |-> "sent"],
    [wrap |-> "message", chat |-> "undef", alias |-> TRUE,  content |-> "str",  lists |-> TRUE,
     status |-> "sent"],
    [wrap |-> "none",    chat |-> "undef", alias |-> FALSE, content |-> "str",  lists |-> FALSE,
     status |-> "sent"] }

\* The flat record with each delivery status.
StatusShapes ==
  { [wrap |-> "none", chat |-> "str", alias |-> FALSE, content |-> "str", lists |-> TRUE,
     status |-> Statuses[i]] : i \in DOMAIN Statuses }

\* A socket event carries the record itself, flat or without a chat.
EventShapes == { shape \in WireShapes : shape.wrap = "none" }

\* The wire record of message id with the given text and edited flag.  The
\* server sends a live message: not deleted, no reactions, no receipts.
Wire(id, shape, text, edited) ==
  [ wrap |-> shape.wrap,
    m |-> [ _id       |-> id,
            chat      |-> [k |-> shape.chat,
                           id |-> IF shape.chat = "undef" THEN Undef ELSE ChatOf(id)],
            chatId    |-> IF shape.alias THEN ChatOf(id) ELSE Undef,
            createdAt |-> CreatedAt(id),
            content   |-> [k |-> shape.content, v |-> text],
            edited    |-> edited,
            status    |-> shape.status,
            deleted   |-> FALSE, deletedBy |-> Undef, deletedAt |-> NoTime,
            reactions |-> [k |-> IF shape.lists THEN "array" ELSE "undef", v |-> << >>],
            readBy    |-> [k |-> IF shape.lists THEN "array" ELSE "undef", v |-> << >>] ] ]

ToWire(id, shape) == Wire(id, shape, TextOf(id), FALSE)

\* --------------------------------------------------------------- variables
VARIABLES
  user, token, authPc,           \* AuthProvider: user, token, position of init
  socket, listening, hChat,      \* SocketService.socket; handlers on it, their closure
  currentChat, chats, messages,  \* ChatProvider state
  isLoadingMessages, loads,      \* loading flag; loadMessages calls in flight
  calls,                         \* commands (send, edit, ...) awaiting the transport
  lastLoadedChatRef,             \* ChatArea.lastLoadedChatRef
  typingUsers,                   \* ChatProvider.typingUsers
  lastRoomRef,                   \* ChatProvider.lastRoomRef
  emits, subscribed,             \* emissions of the last step; rooms joined and not left
  now, typedAt,                  \* local clock; time of the last typing_start applied
  onlineUsers, currentChatObj,   \* ChatProvider.onlineUsers; the users of the currentChat object
  connectErrorListeners,         \* connect_error listeners on the socket object
  orphans,                       \* sockets left open that SocketService no longer references
  typingTimeout,                 \* ChatProvider.typingTimeout
  typingTimeoutRef,              \* ChatArea.typingTimeoutRef
  timers, keys,                  \* armed timeouts; typing inputs so far
  lastEvent                      \* the event or outcome the last step handled, if any

vars == << user, token, authPc, socket, listening, hChat, currentChat, chats,
           messages, isLoadingMessages, loads, calls, lastLoadedChatRef, typingUsers,
           lastRoomRef, emits, subscribed, now, typedAt, onlineUsers, currentChatObj,
           connectErrorListeners, orphans, typingTimeout, typingTimeoutRef, timers, keys,
           lastEvent >>

authVars   == << user, token, authPc >>
sockVars   == << socket, listening, hChat >>
roomVars   == << lastRoomRef, subscribed >>
loadVars   == << isLoadingMessages, loads, lastLoadedChatRef >>
typingVars == << typingUsers, typedAt >>
peopleVars == << onlineUsers, currentChatObj >>
timerVars  == << typingTimeout, typingTimeoutRef, timers, keys >>
localVars  == << peopleVars, connectErrorListeners, orphans, timerVars >>

\* What the last step handled: a socket event or the outcome of a command,
\* with the conversation and the message or user it names; arg is the rest
\* of the payload, as a sequence.
Ev(name, chat, id, arg) == [op |-> name, chat |-> chat, id |-> id, arg |-> arg]
Op(name, chat, id) == Ev(name, chat, id, << >>)
None == Op("none", "null", "undefined")

isAuthenticated == user # "null" /\ token

\* ---------------------------------------------------------------- helpers
RECURSIVE Filter(_, _)
Filter(s, u) ==
  IF s = << >> THEN << >>
  ELSE IF Head(s) = u THEN Filter(Tail(s), u)
       ELSE << Head(s) >> \o Filter(Tail(s), u)

Range(s) == { s[i] : i \in DOMAIN s }


\* Sort key (creationTime, id); ids are ranked m1 < m2 < n1.
IdRank(id) == CASE id = "m1" -> 1 [] id = "m2" -> 2 [] OTHER -> 3
KeyLess(a, b) ==
  \/ a.createdAt < b.createdAt
  \/ a.createdAt = b.createdAt /\ IdRank(a._id) < IdRank(b._id)

\* The transport.  The server keeps each conversation's messages oldest
\* first; the history a fetch sees is the part created so far.  Page 1 is
\* the newest PageLimit messages, page 2 the PageLimit before them, each
\* returned oldest first.
History(c) ==
  LET S == { id \in MsgIds : ChatOf(id) = c }
  IN CHOOSE s \in [1..Cardinality(S) -> S] :
       /\ Range(s) = S
       /\ \A i, j \in 1..Cardinality(S) :
            i < j => (CreatedAt(s[i]) < CreatedAt(s[j])
                      \/ (CreatedAt(s[i]) = CreatedAt(s[j]) /\ IdRank(s[i]) < IdRank(s[j])))
Max(a, b) == IF a > b THEN a ELSE b
PageOf(h, page) ==
  SubSeq(h, Max(1, Len(h) - page * PageLimit + 1), Len(h) - (page - 1) * PageLimit)
PagesOf(c, page) == { PageOf(SubSeq(History(c), 1, n), page) : n \in 0..Len(History(c)) }
PageTable == [c \in Chats, page \in 1..2 |-> PagesOf(c, page)]
AllPages == UNION { PageTable[c, page] : c \in Chats, page \in 1..2 }

\* ------------------------------------------------------------- normalizer
\* normalizeMessage: unwrap data/message, resolve the chat id from the flat
\* string, the embedded object, the chatId alias, else the fallback; flatten
\* a {text} content wrapper, anything else that is not a string becomes '';
\* reactions and readBy become [] unless they are arrays; every other field
\* is copied.
normalizeMessage(raw, fallbackChatId) ==
  LET m == raw.m
      chatId == IF m.chat.k = "str" THEN m.chat.id
                ELSE IF m.chat.k = "obj" THEN m.chat.id
                ELSE IF m.chatId # Undef THEN m.chatId
                ELSE fallbackChatId
      content == IF m.content.k \in {"str", "text"} THEN m.content.v ELSE ""
      reactions == IF m.reactions.k = "array" THEN m.reactions.v ELSE << >>
      readBy    == IF m.readBy.k = "array" THEN m.readBy.v ELSE << >>
  IN [ _id |-> m._id, chat |-> chatId, createdAt |-> m.createdAt,
       content |-> content, edited |-> m.edited, status |-> m.status,
       deleted |-> m.deleted, deletedBy |-> m.deletedBy, deletedAt |-> m.deletedAt,
       reactions |-> reactions, readBy |-> readBy ]

\* ---------------------------------------------------------- SocketService
\* connect(): keep a connected socket, else create a new one (connecting).
connect(sock) == IF sock = "connected" THEN sock ELSE "connecting"
isConnected(sock) == sock = "connected"
Room(chatId) == << "chat", chatId >>          \* `chat_${chatId}`
JoinChat(chatId)  == [ev |-> "join_chat",  room |-> Room(chatId)]
LeaveChat(chatId) == [ev |-> "leave_chat", room |-> Room(chatId)]

TypingStart(chatId) == [ev |-> "typing_start", chatId |-> chatId]
TypingStop(chatId)  == [ev |-> "typing_stop",  chatId |-> chatId]

\* Rooms joined and not left after the emissions es, starting from subs.
RECURSIVE ApplyEmits(_, _)
ApplyEmits(subs, es) ==
  IF es = << >> THEN subs
  ELSE ApplyEmits(IF Head(es).ev = "join_chat" THEN subs \cup {Head(es).room}
                  ELSE subs \ {Head(es).room}, Tail(es))

\* ----------------------------------------------------------- ChatProvider
\* Effect 3 (deps [currentChat?._id]): what it emits for the new id.
RoomEmitsJoinFirst(id, sock, last) ==
  IF id = NoChat \/ ~isConnected(sock) THEN << >>
  ELSE << JoinChat(id) >>
       \o (IF last # NoChat /\ last # id THEN << LeaveChat(last) >> ELSE << >>)

RoomEmits(id, sock, last) ==
  IF id = NoChat \/ ~isConnected(sock) THEN << >>
  ELSE (IF last # NoChat /\ last # id THEN << LeaveChat(last) >> ELSE << >>)
       \o << JoinChat(id) >>

RoomEffectRecordsAlways(id, sock) ==
  /\ emits' = RoomEmits(id, sock, lastRoomRef)
  /\ subscribed' = ApplyEmits(subscribed, emits')
  /\ lastRoomRef' = IF id = NoChat THEN lastRoomRef ELSE id

RoomEffect(id, sock) ==
  /\ emits' = RoomEmits(id, sock, lastRoomRef)
  /\ subscribed' = ApplyEmits(subscribed, emits')
  /\ lastRoomRef' = IF id = NoChat \/ ~isConnected(sock) THEN lastRoomRef ELSE id

NoEmit == emits' = << >> /\ UNCHANGED roomVars
NoEvent == lastEvent' = None

\* Effect 2 (deps [isAuthenticated, user]): the cleanup of the previous run
\* (teardownSocketListeners), then setupSocketListeners when authenticated.
\* Both go through this.socket?.on/off, so they do nothing on a null socket.
\* The handlers registered are those of this render: they close over the
\* currentChat of this render.
\* onError also registers a wrapper of the handler for connect_error, and
\* offError passes the handler itself to off('connect_error'), which finds
\* no such listener: a wrapper stays on the socket object.  "live" is the
\* wrapper of the setup in force, "torn" a wrapper of a setup torn down.
WrappersAfterTeardown(ws) == IF ws = {} THEN {} ELSE {"torn"}

\* ws: the connect_error listeners on the socket when the effect runs.
BootstrapOn(auth, sock, ws) ==
  /\ listening' = IF sock = "null" THEN listening ELSE auth
  /\ hChat' = IF sock = "null" THEN hChat
              ELSE IF auth THEN currentChat ELSE NoChat
  /\ connectErrorListeners' =
       IF sock = "null" THEN ws
       ELSE WrappersAfterTeardown(ws) \cup (IF auth THEN {"live"} ELSE {})

BootstrapEffect(auth, sock) == BootstrapOn(auth, sock, connectErrorListeners)

\* SocketService.connect, then the bootstrap effect of the commit that
\* follows.  Unless the referenced socket is connected, a new socket takes
\* the reference and carries no listener yet; a socket that was open
\* (connecting, or dropped and reconnecting) is not closed: it stays open
\* with the handlers it carries, and the cleanup's off() calls go to the new
\* socket.
OrphansAfterConnect(os, sock, lst) ==
  IF sock \in {"connecting", "dropped"}
    THEN os \cup {IF lst THEN "handlers" ELSE "bare"}
    ELSE os

ConnectAndBootstrap(sock) ==
  /\ socket' = connect(sock)
  /\ orphans' = OrphansAfterConnect(orphans, sock, listening)
  /\ BootstrapOn(TRUE, socket', IF isConnected(sock) THEN connectErrorListeners ELSE {})

\* ------------------------------------------------------------------- Init
Init ==
  /\ user = "null" /\ token = FALSE /\ authPc = "start"
  /\ socket = "null" /\ listening = FALSE /\ hChat = NoChat
  /\ currentChat = NoChat
  /\ chats = << >>
  /\ messages = << >>
  /\ isLoadingMessages = FALSE /\ loads = << >> /\ lastLoadedChatRef = NoChat
  /\ calls = << >>
  /\ typingUsers = [c \in Chats |-> << >>]
  /\ lastRoomRef = NoChat /\ emits = << >> /\ subscribed = {}
  /\ now = 0 /\ typedAt = [c \in Chats |-> [u \in Users |-> 0]]
  /\ onlineUsers = {} /\ currentChatObj = NoChatObj
  /\ connectErrorListeners = {} /\ orphans = {}
  /\ typingTimeout = NoTimer /\ typingTimeoutRef = NoTimer /\ timers = {} /\ keys = 0
  /\ lastEvent = None

\* ----------------------------------------------------------- AuthProvider
\* init effect, first half: hydrate token and user from storage.  The app
\* is authenticated from here on, so effect 2 runs for the first time, with
\* no socket yet.
AuthInit ==
  /\ authPc = "start"
  /\ token' = TRUE /\ user' = "u0" /\ authPc' = "verifying"
  /\ UNCHANGED socket
  /\ BootstrapEffect(TRUE, socket)
  /\ NoEmit
  /\ NoEvent
  /\ UNCHANGED << currentChat, chats, messages, loadVars, typingVars, now, calls,
                  peopleVars, timerVars, orphans >>

\* init effect, getMe resolved: setUser(me.user) and connect the socket.
GetMeOk ==
  /\ authPc = "verifying"
  /\ user' = "u0" /\ authPc' = "in" /\ UNCHANGED token
  /\ ConnectAndBootstrap(socket)
  /\ NoEmit
  /\ NoEvent
  /\ UNCHANGED << currentChat, chats, messages, loadVars, typingVars, now, calls,
                  peopleVars, timerVars >>

\* register resolved with a token and a user (login does the same and then
\* reloads the page): persistSession, then connect.  The form can be
\* submitted while init's getMe is pending or after the session was cleared.
RegisterOk ==
  /\ authPc \in {"verifying", "out"}
  /\ token' = TRUE /\ user' = "u0"
  /\ authPc' = IF authPc = "out" THEN "in" ELSE authPc
  /\ ConnectAndBootstrap(socket)
  /\ NoEmit
  /\ NoEvent
  /\ UNCHANGED << currentChat, chats, messages, loadVars, typingVars, now, calls,
                  peopleVars, timerVars >>

\* updateUser / refreshUser: a new user object, so effect 2 runs again.
UpdateUser ==
  /\ authPc = "in" /\ isAuthenticated
  /\ UNCHANGED << authVars, socket >>
  /\ BootstrapEffect(TRUE, socket)
  /\ NoEmit
  /\ NoEvent
  /\ UNCHANGED << currentChat, chats, messages, loadVars, typingVars, now, calls,
                  peopleVars, timerVars, orphans >>

\* clearSession (logout, failed getMe, failed refreshUser): drop token and
\* user, disconnect the socket and null the reference; effect 2's cleanup
\* runs on the next commit, when the socket is already null.
ClearSession ==
  /\ authPc \in {"verifying", "in"}
  /\ token' = FALSE /\ user' = "null" /\ authPc' = "out"
  /\ socket' = "null"
  /\ BootstrapEffect(FALSE, socket')
  /\ NoEmit
  /\ NoEvent
  /\ UNCHANGED << currentChat, chats, messages, loadVars, typingVars, now, calls,
                  peopleVars, timerVars, orphans >>

\* ---------------------------------------------------------- the transport
SocketConnected ==
  /\ socket = "connecting"
  /\ socket' = "connected"
  /\ NoEmit
  /\ NoEvent
  /\ UNCHANGED << authVars, listening, hChat, currentChat, chats, messages,
                  loadVars, typingVars, now, calls, localVars >>

TransportDrop ==
  /\ socket = "connected"
  /\ socket' = "dropped"
  /\ NoEmit
  /\ NoEvent
  /\ UNCHANGED << authVars, listening, hChat, currentChat, chats, messages,
                  loadVars, typingVars, now, calls, localVars >>

Reconnected ==
  /\ socket = "dropped"
  /\ socket' = "connected"
  /\ NoEmit
  /\ NoEvent
  /\ UNCHANGED << authVars, listening, hChat, currentChat, chats, messages,
                  loadVars, typingVars, now, calls, localVars >>


\* ----------------------------------------------------- ChatProvider: data
\* loadChats resolved (bootstrap effect, refreshChats, Sidebar): the list
\* replaces chats.  The preview holds the id of the last message.
ChatRec(unread, last, lastAt) ==
  [unreadCount |-> unread, lastMessage |-> last, lastMessageAt |-> lastAt]

\* The list the server sends while it knows the users' presence as st.
ChatList(S, n, st) == [c \in S |-> ChatRec(n, Undef, 0) @@ ChatUsers(c, st)]

LoadChats(S, n, st) ==
  /\ isAuthenticated
  /\ chats' = ChatList(S, n, st)
  /\ NoEmit
  /\ NoEvent
  /\ UNCHANGED << authVars, sockVars, currentChat, messages, loadVars,
                  typingVars, now, calls, localVars >>

LoadChatsOk(S, n) == LoadChats(S, n, AllOffline)

\* loadMessages up to its await: the flag is raised and the fetch starts.
StartLoad(chatId, page, eff) ==
  /\ Len(loads) < MaxInFlight
  /\ isLoadingMessages' = TRUE
  /\ loads' = Append(loads, [chatId |-> chatId, page |-> page, eff |-> eff])

\* Sidebar.handleNewChat: setCurrentChat(chat) with the chat opened for a
\* contact, in the list or not, as the server sends it while it knows the
\* users' presence as st.  The commit flushes effect 3 (rooms) and
\* ChatArea's load effect, which fetches page 1 unless this chat was the
\* last one loaded.  (The loadChats that follows resolves as LoadChatsOk.)
OpenChat(c, st) ==
  /\ authPc = "in" /\ isAuthenticated
  /\ c # currentChat
  /\ currentChat' = c
  /\ currentChatObj' = ChatUsers(c, st)
  /\ RoomEffect(c, socket)
  /\ IF lastLoadedChatRef = c
       THEN UNCHANGED << isLoadingMessages, loads >>
       ELSE StartLoad(c, 1, TRUE)
  /\ UNCHANGED lastLoadedChatRef
  /\ NoEvent
  /\ UNCHANGED << authVars, sockVars, chats, messages, typingVars, now, calls,
                  onlineUsers, connectErrorListeners, orphans, timerVars >>

SelectChat(c) == OpenChat(c, AllOffline)

\* ChatArea's load effect has loadMessages among its deps, a new function on
\* every render of the provider: it runs again on each of them, and fetches
\* again until lastLoadedChatRef names the active chat.
LoadEffectRerun ==
  /\ authPc = "in" /\ isAuthenticated
  /\ currentChat # NoChat
  /\ lastLoadedChatRef # currentChat
  /\ StartLoad(currentChat, 1, TRUE)
  /\ UNCHANGED lastLoadedChatRef
  /\ NoEmit
  /\ NoEvent
  /\ UNCHANGED << authVars, sockVars, currentChat, chats, messages,
                  typingVars, now, calls, localVars >>

\* loadMessages(currentChat._id, 2): an older page of the open chat.
LoadOlder ==
  /\ authPc = "in" /\ isAuthenticated
  /\ currentChat # NoChat
  /\ StartLoad(currentChat, 2, FALSE)
  /\ UNCHANGED lastLoadedChatRef
  /\ NoEmit
  /\ NoEvent
  /\ UNCHANGED << authVars, sockVars, currentChat, chats, messages,
                  typingVars, now, calls, localVars >>

RemoveAt(s, i) == SubSeq(s, 1, i - 1) \o SubSeq(s, i + 1, Len(s))

\* What loadMessages stores when the fetch of `page` resolves with `list`.
MergePagePrepend(prev, list, page) == list \o prev

MergePage(prev, list, page) == IF page = 1 THEN list ELSE list \o prev

\* loadMessages after its await, fetch resolved with the page `ids` sent in
\* wire shape `shape`; then ChatArea's continuation records the chat.
LoadResolve(i, ids, shape) ==
  /\ i \in DOMAIN loads
  /\ ids \in PageTable[loads[i].chatId, loads[i].page]
  /\ LET ld   == loads[i]
         list == [k \in DOMAIN ids |-> normalizeMessage(ToWire(ids[k], shape), ld.chatId)]
     IN /\ Len(MergePage(messages, list, ld.page)) <= MaxTimeline
        /\ messages' = MergePage(messages, list, ld.page)
        /\ lastLoadedChatRef' = IF ld.eff THEN ld.chatId ELSE lastLoadedChatRef
        /\ lastEvent' = Ev("load_ok", ld.chatId, Undef, << ld.page, list >>)
  /\ isLoadingMessages' = FALSE
  /\ loads' = RemoveAt(loads, i)
  /\ NoEmit
  /\ UNCHANGED << authVars, sockVars, currentChat, chats, typingVars, now, calls, localVars >>

\* loadMessages after its await, fetch rejected: toast, flag lowered.  The
\* error is caught inside loadMessages, so ChatArea's continuation runs too.
LoadFail(i) ==
  /\ i \in DOMAIN loads
  /\ lastLoadedChatRef' = IF loads[i].eff THEN loads[i].chatId ELSE lastLoadedChatRef
  /\ isLoadingMessages' = FALSE
  /\ loads' = RemoveAt(loads, i)
  /\ NoEmit
  /\ lastEvent' = Ev("load_failed", loads[i].chatId, Undef, << loads[i].page >>)
  /\ UNCHANGED << authVars, sockVars, currentChat, chats, messages,
                  typingVars, now, calls, localVars >>

\* --------------------------------------------------- ChatProvider: events
\* A socket event reaches a handler only on a connected socket that carries
\* the handlers.
Delivering == socket = "connected" /\ listening

\* handleNewMessage, the timeline: appended when the message is for the chat
\* the handler sees as open.
TimelineAfterNew(prev, message, open) ==
  IF open = message.chat THEN Append(prev, message) ELSE prev

\* handleNewMessage, the unread counter of the named chat.
UnreadAfterNew(c, unread, open) == IF c = open THEN unread ELSE unread + 1

\* (The markAsRead it fires for a message of the chat it sees as open writes
\* no state; its outcome is the step markAsRead.)
handleNewMessage(id, shape) ==
  /\ Delivering
  /\ LET message == normalizeMessage(ToWire(id, shape), Undef)
     IN IF message.chat = Undef
          THEN UNCHANGED << messages, chats >>
          ELSE /\ Len(TimelineAfterNew(messages, message, hChat)) <= MaxTimeline
               /\ messages' = TimelineAfterNew(messages, message, hChat)
               /\ message.chat \in DOMAIN chats =>
                    UnreadAfterNew(message.chat, chats[message.chat].unreadCount, hChat)
                      <= MaxUnread
               /\ chats' = [c \in DOMAIN chats |->
                              IF c = message.chat
                                THEN ChatRec(UnreadAfterNew(c, chats[c].unreadCount, hChat),
                                             message._id, message.createdAt) @@ chats[c]
                                ELSE chats[c]]
  /\ NoEmit
  /\ lastEvent' = Op("new_message", normalizeMessage(ToWire(id, shape), Undef).chat, id)
  /\ UNCHANGED << authVars, sockVars, currentChat, loadVars, typingVars, now, calls, localVars >>

\* handleMessageEdited: the normalized record takes the place of every
\* record of the same id.  The fallback chat is the chat the handler sees as
\* open (currentChat?._id || undefined).
TimelineAfterEditedUpsert(prev, message) ==
  IF \E k \in DOMAIN prev : prev[k]._id = message._id
    THEN [k \in DOMAIN prev |-> IF prev[k]._id = message._id THEN message ELSE prev[k]]
    ELSE Append(prev, message)

TimelineAfterEdited(prev, message) ==
  [k \in DOMAIN prev |-> IF prev[k]._id = message._id THEN message ELSE prev[k]]

handleMessageEdited(id, shape, text) ==
  /\ Delivering
  /\ LET message == normalizeMessage(Wire(id, shape, text, TRUE),
                                     IF hChat = NoChat THEN Undef ELSE hChat)
     IN /\ messages' = TimelineAfterEdited(messages, message)
        /\ lastEvent' = Ev("message_edited", Undef, id, << message >>)
  /\ NoEmit
  /\ UNCHANGED << authVars, sockVars, currentChat, chats, loadVars, typingVars, now, calls, localVars >>

\* handleMessageDeleted: every record of the id becomes deleted, by the user
\* the event names, at the local time of handling (new Date()).
TimelineAfterDeletedAll(prev, messageId, deletedBy, t) ==
  [k \in DOMAIN prev |->
     [prev[k] EXCEPT !.deleted = TRUE, !.deletedAt = t, !.deletedBy = deletedBy]]

TimelineAfterDeleted(prev, messageId, deletedBy, t) ==
  [k \in DOMAIN prev |->
     IF prev[k]._id = messageId
       THEN [prev[k] EXCEPT !.deleted = TRUE, !.deletedAt = t, !.deletedBy = deletedBy]
       ELSE prev[k]]

handleMessageDeleted(messageId, deletedBy) ==
  /\ Delivering
  /\ messages' = TimelineAfterDeleted(messages, messageId, deletedBy, now)
  /\ lastEvent' = Ev("message_deleted", Undef, messageId, << deletedBy >>)
  /\ NoEmit
  /\ UNCHANGED << authVars, sockVars, currentChat, chats, loadVars, typingVars, now, calls, localVars >>

\* handleReactionAdded / handleReactionRemoved: the event's list becomes the
\* reaction list of every record of the id.
TimelineAfterReactionMerged(prev, messageId, reactions) ==
  [k \in DOMAIN prev |->
     IF prev[k]._id = messageId
       THEN [prev[k] EXCEPT !.reactions = prev[k].reactions \o reactions]
       ELSE prev[k]]

TimelineAfterReaction(prev, messageId, reactions) ==
  [k \in DOMAIN prev |->
     IF prev[k]._id = messageId THEN [prev[k] EXCEPT !.reactions = reactions]
     ELSE prev[k]]

handleReactionAdded(messageId, reactions) ==
  /\ Delivering
  /\ messages' = TimelineAfterReaction(messages, messageId, reactions)
  /\ lastEvent' = Ev("reaction_added", Undef, messageId, reactions)
  /\ NoEmit
  /\ UNCHANGED << authVars, sockVars, currentChat, chats, loadVars, typingVars, now, calls, localVars >>

handleReactionRemoved(messageId, reactions) ==
  /\ Delivering
  /\ messages' = TimelineAfterReaction(messages, messageId, reactions)
  /\ lastEvent' = Ev("reaction_removed", Undef, messageId, reactions)
  /\ NoEmit
  /\ UNCHANGED << authVars, sockVars, currentChat, chats, loadVars, typingVars, now, calls, localVars >>

\* handleMessageRead: a receipt {user, readAt} is added at the end of the
\* readBy list of every record of the id.
Receipt(userId, readAt) == [user |-> userId, readAt |-> readAt]

TimelineAfterRead(prev, messageId, userId, readAt) ==
  [k \in DOMAIN prev |->
     IF prev[k]._id = messageId
       THEN [prev[k] EXCEPT !.readBy = Append(prev[k].readBy, Receipt(userId, readAt))]
       ELSE prev[k]]

handleMessageRead(messageId, userId, readAt) ==
  /\ Delivering
  /\ \A k \in DOMAIN messages :
       messages[k]._id = messageId => Len(messages[k].readBy) < MaxReceipts
  /\ messages' = TimelineAfterRead(messages, messageId, userId, readAt)
  /\ lastEvent' = Ev("message_read", Undef, messageId, << Receipt(userId, readAt) >>)
  /\ NoEmit
  /\ UNCHANGED << authVars, sockVars, currentChat, chats, loadVars, typingVars, now, calls, localVars >>

\* ------------------------------------------------- ChatProvider: commands
\* stopTyping of a render whose currentChat is chat and whose typingTimeout
\* is prev: typing_stop goes out for that chat (socket?.emit); when prev is a
\* timeout it is cleared and typingTimeout is set to null.  Without a chat it
\* returns at once.
Cancel(ts, owner, n) == { t \in ts : ~(t.owner = owner /\ t.n = n) }

StopEmits(chat, sock) ==
  IF chat = NoChat \/ sock = "null" THEN << >> ELSE << TypingStop(chat) >>

TimersAfterStop(ts, chat, prev) ==
  IF chat # NoChat /\ prev # NoTimer THEN Cancel(ts, "provider", prev) ELSE ts

TimeoutAfterStop(cur, chat, prev) ==
  IF chat # NoChat /\ prev # NoTimer THEN NoTimer ELSE cur

\* ChatArea.sendTextMessage after its await of sendMessage (which resolves
\* whether the request succeeded or not): the stopTyping of the render that
\* started the send, then the timeout in typingTimeoutRef is cleared.
AfterSend(call) ==
  /\ emits' = StopEmits(call.chat, socket)
  /\ timers' = Cancel(TimersAfterStop(timers, call.chat, call.timeout),
                      "area", typingTimeoutRef)
  /\ typingTimeout' = TimeoutAfterStop(typingTimeout, call.chat, call.timeout)
  /\ typingTimeoutRef' = NoTimer
  /\ UNCHANGED << roomVars, keys >>

\* A command up to its await: the request leaves, the command waits in
\* calls with the currentChat and the typingTimeout of the render that made
\* the call.
StartCall(cmd, id, text) ==
  /\ authPc = "in" /\ isAuthenticated
  /\ Len(calls) < MaxCalls
  /\ calls' = Append(calls, [cmd |-> cmd, chat |-> currentChat, id |-> id, text |-> text,
                             timeout |-> typingTimeout])
  /\ NoEmit
  /\ NoEvent
  /\ UNCHANGED << authVars, sockVars, currentChat, chats, messages, loadVars,
                  typingVars, now, localVars >>

\* sendMessage up to its await; without an open chat it returns at once.
\* id is the id the server gives the new message: an id of the open chat
\* that the client has not met in the timeline, in a preview or as the id
\* of another send.
sendMessage(id) ==
  /\ currentChat # NoChat
  /\ ChatOf(id) = currentChat
  /\ \A k \in DOMAIN messages : messages[k]._id # id
  /\ \A c \in DOMAIN chats : chats[c].lastMessage # id
  /\ \A k \in DOMAIN calls : ~(calls[k].cmd = "sendMessage" /\ calls[k].id = id)
  /\ StartCall("sendMessage", id, TextOf(id))

\* sendMessage after its await, request resolved with the new message in
\* wire shape `shape`: the normalized record goes to the end of the timeline
\* and becomes the preview of its chat, when the list holds that chat.
TimelineAfterSend(prev, newMsg) == Append(prev, newMsg)

ChatsAfterSend(prev, newMsg) ==
  [c \in DOMAIN prev |->
     IF c = newMsg.chat
       THEN ChatRec(prev[c].unreadCount, newMsg._id, newMsg.createdAt) @@ prev[c]
       ELSE prev[c]]

SendResolve(i, shape) ==
  /\ i \in DOMAIN calls /\ calls[i].cmd = "sendMessage"
  /\ LET newMsg == normalizeMessage(ToWire(calls[i].id, shape), calls[i].chat)
     IN /\ Len(TimelineAfterSend(messages, newMsg)) <= MaxTimeline
        /\ messages' = TimelineAfterSend(messages, newMsg)
        /\ chats' = ChatsAfterSend(chats, newMsg)
        /\ lastEvent' = Ev("send_ok", calls[i].chat, calls[i].id, << newMsg >>)
  /\ calls' = RemoveAt(calls, i)
  /\ AfterSend(calls[i])
  /\ UNCHANGED << authVars, sockVars, currentChat, loadVars, typingVars, now,
                  peopleVars, connectErrorListeners, orphans >>

\* editMessage up to its await, for a message of the timeline.
editMessage(messageId, content) ==
  /\ \E k \in DOMAIN messages : messages[k]._id = messageId
  /\ StartCall("editMessage", messageId, content)

\* deleteMessage up to its await, for a message of the timeline.
deleteMessage(messageId) ==
  /\ \E k \in DOMAIN messages : messages[k]._id = messageId
  /\ StartCall("deleteMessage", messageId, Undef)

\* editMessage after its await, request resolved.  The transport hands back
\* {data: m}, m the server's record of the message in wire shape `shape`
\* with the text the server stored; its normalized form takes the place of
\* every record of its id.  The fallback chat is currentChat?._id of the
\* render that made the call.
EditResponse(id, shape, text) ==
  Wire(id, [shape EXCEPT !.wrap = "data"], text, TRUE)

UpdatedFromTyped(call, res) ==
  [normalizeMessage(res, IF call.chat = NoChat THEN Undef ELSE call.chat)
     EXCEPT !.content = call.text]

Updated(call, res) ==
  normalizeMessage(res, IF call.chat = NoChat THEN Undef ELSE call.chat)

EditResolve(i, shape, text) ==
  /\ i \in DOMAIN calls /\ calls[i].cmd = "editMessage"
  /\ LET res == EditResponse(calls[i].id, shape, text)
     IN /\ messages' = TimelineAfterEdited(messages, Updated(calls[i], res))
        /\ lastEvent' = Ev("edit_ok", calls[i].chat, calls[i].id, << res, calls[i] >>)
  /\ calls' = RemoveAt(calls, i)
  /\ NoEmit
  /\ UNCHANGED << authVars, sockVars, currentChat, chats, loadVars, typingVars, now, localVars >>

\* deleteMessage after its await, request resolved: every record of the id
\* gets deleted: true, and nothing else.
TimelineAfterDeleteRemoved(prev, messageId) ==
  IF prev = << >> THEN prev
  ELSE SubSeq(prev, 1, Len(prev) - 1)

TimelineAfterDelete(prev, messageId) ==
  [k \in DOMAIN prev |->
     IF prev[k]._id = messageId THEN [prev[k] EXCEPT !.deleted = TRUE] ELSE prev[k]]

DeleteResolve(i) ==
  /\ i \in DOMAIN calls /\ calls[i].cmd = "deleteMessage"
  /\ messages' = TimelineAfterDelete(messages, calls[i].id)
  /\ lastEvent' = Ev("delete_ok", calls[i].chat, calls[i].id, << >>)
  /\ calls' = RemoveAt(calls, i)
  /\ NoEmit
  /\ UNCHANGED << authVars, sockVars, currentChat, chats, loadVars, typingVars, now, localVars >>

\* sendMessage, editMessage or deleteMessage after its await, request
\* rejected: the catch block shows a toast and logs; after a send,
\* sendTextMessage goes on as after a success.
CallFailRetry(i) ==
  /\ i \in DOMAIN calls
  /\ calls' = Append(RemoveAt(calls, i), calls[i])
  /\ lastEvent' = Ev("failed", calls[i].chat, calls[i].id, << calls[i].cmd >>)
  /\ NoEmit
  /\ UNCHANGED << authVars, sockVars, currentChat, chats, messages, loadVars,
                  typingVars, now, localVars >>

CallFail(i) ==
  /\ i \in DOMAIN calls
  /\ calls' = RemoveAt(calls, i)
  /\ lastEvent' = Ev("failed", calls[i].chat, calls[i].id, << calls[i].cmd >>)
  /\ IF calls[i].cmd = "sendMessage"
       THEN AfterSend(calls[i])
       ELSE NoEmit /\ UNCHANGED timerVars
  /\ UNCHANGED << authVars, sockVars, currentChat, chats, messages, loadVars,
                  typingVars, now, peopleVars, connectErrorListeners, orphans >>

\* addReaction, removeReaction, markAsRead (also the markAsRead that
\* handleNewMessage fires): the request and its outcome.  Nothing follows
\* the await but the catch block's toast or log, so call and outcome are one
\* step.
FireAndForgetOptimistic(cmd, messageId, ok) ==
  /\ authPc = "in" /\ isAuthenticated
  /\ lastEvent' = Ev(IF ok THEN "done" ELSE "failed", Undef, Undef, << cmd >>)
  /\ messages' = IF cmd = "markAsRead"
                   THEN TimelineAfterRead(messages, messageId, "u0", now)
                   ELSE TimelineAfterReaction(messages, messageId, << >>)
  /\ NoEmit
  /\ UNCHANGED << authVars, sockVars, currentChat, chats, loadVars,
                  typingVars, now, calls, localVars >>

FireAndForget(cmd, messageId, ok) ==
  /\ authPc = "in" /\ isAuthenticated
  /\ lastEvent' = Ev(IF ok THEN "done" ELSE "failed", Undef, Undef, << cmd >>)
  /\ NoEmit
  /\ UNCHANGED << authVars, sockVars, currentChat, chats, messages, loadVars,
                  typingVars, now, calls, localVars >>

addReaction(messageId, ok)    == FireAndForget("addReaction", messageId, ok)
removeReaction(messageId, ok) == FireAndForget("removeReaction", messageId, ok)
markAsRead(messageId, ok)     == FireAndForget("markAsRead", messageId, ok)

\* handleUserTyping: the typing list of the named chat.  The list holds user
\* objects, told apart by _id; the payload's user is the user its userId
\* names, so an entry is written here as that id.
TypingAfterAppend(list, userId, isTyping) ==
  IF isTyping THEN Append(list, userId) ELSE Filter(list, userId)

TypingAfterKeep(list, userId, isTyping) ==
  IF isTyping THEN Append(Filter(list, userId), userId) ELSE list

TypingAfter(list, userId, isTyping) ==
  IF isTyping THEN Append(Filter(list, userId), userId) ELSE Filter(list, userId)

handleUserTyping(c, u, isTyping) ==
  /\ Delivering
  /\ typingUsers' = [typingUsers EXCEPT ![c] = TypingAfter(typingUsers[c], u, isTyping)]
  /\ typedAt' = IF isTyping THEN [typedAt EXCEPT ![c][u] = now] ELSE typedAt
  /\ NoEmit
  /\ lastEvent' = Op(IF isTyping THEN "typing_start" ELSE "typing_stop", c, u)
  /\ UNCHANGED << authVars, sockVars, currentChat, chats, messages, loadVars, now, calls, localVars >>

\* handleUserStatusChanged: the online set gains the user on "online" and
\* loses it on any other status; in every chat of the list the participant
\* records of the user and the otherParticipant, when it is the user, get
\* the event's status, statusMessage and lastSeen.
OnlineAfterStatus(prev, userId, status) ==
  IF status = "online" THEN prev \cup {userId} ELSE prev \ {userId}

WithProfile(p, profile) ==
  [p EXCEPT !.status = profile.status, !.statusMessage = profile.statusMessage,
            !.lastSeen = profile.lastSeen]

ChatAfterStatus(chat, userId, profile) ==
  [chat EXCEPT
     !.participants =
        [k \in DOMAIN @ |-> IF @[k]._id = userId THEN WithProfile(@[k], profile) ELSE @[k]],
     !.otherParticipant =
        IF @._id # Undef /\ @._id = userId THEN WithProfile(@, profile) ELSE @]

handleUserStatusChanged(userId, profile) ==
  /\ Delivering
  /\ onlineUsers' = OnlineAfterStatus(onlineUsers, userId, profile.status)
  /\ chats' = [c \in DOMAIN chats |-> ChatAfterStatus(chats[c], userId, profile)]
  /\ lastEvent' = Ev("user_status_changed", Undef, userId, << profile >>)
  /\ NoEmit
  /\ UNCHANGED << authVars, sockVars, currentChat, messages, loadVars, typingVars, now,
                  calls, currentChatObj, connectErrorListeners, orphans, timerVars >>

\* handleChatUpdated{chatId, lastMessage, lastMessageAt}: in the named chat
\* of the list the preview becomes the normalized lastMessage, when the event
\* carries one, and lastMessageAt the event's.  messageId is the id of the
\* message carried, Undef when the event carries none.
UpdateTimes == {2, 3}

ChatAfterUpdatedUnread(chat, lastMessage, lastMessageAt) ==
  [chat EXCEPT !.lastMessage = IF lastMessage # Undef THEN lastMessage ELSE @,
               !.lastMessageAt = lastMessageAt,
               !.unreadCount = 0]

ChatAfterUpdated(chat, lastMessage, lastMessageAt) ==
  [chat EXCEPT !.lastMessage = IF lastMessage # Undef THEN lastMessage ELSE @,
               !.lastMessageAt = lastMessageAt]

handleChatUpdated(chatId, messageId, shape, lastMessageAt) ==
  /\ Delivering
  /\ LET lastMessage == IF messageId = Undef THEN Undef
                        ELSE normalizeMessage(ToWire(messageId, shape), chatId)._id
     IN chats' = [c \in DOMAIN chats |->
                    IF c = chatId THEN ChatAfterUpdated(chats[c], lastMessage, lastMessageAt)
                    ELSE chats[c]]
  /\ lastEvent' = Ev("chat_updated", chatId, messageId, << lastMessageAt >>)
  /\ NoEmit
  /\ UNCHANGED << authVars, sockVars, currentChat, messages, loadVars, typingVars, now,
                  calls, localVars >>

\* ChatArea.handleTyping, the input changed to `text`.  (The input also
\* gets text from the emoji picker and from handleEdit, without typing.)
\* A text: startTyping of this render (typing_start goes out, the timeout in
\* typingTimeout is cleared, a new one is armed and stored), then the timeout
\* in typingTimeoutRef is cleared and a new one armed.  Both call the
\* stopTyping of this render when they fire.  An empty text: stopTyping of
\* this render, and the timeout in typingTimeoutRef is cleared.
Timer(n, owner, due, chat, prev) ==
  [n |-> n, owner |-> owner, due |-> due, chat |-> chat, prev |-> prev]

handleTyping(text) ==
  /\ authPc = "in" /\ isAuthenticated
  /\ currentChat # NoChat
  /\ IF text # ""
       THEN /\ keys < MaxKeys /\ now + TypingHorizon <= MaxTime
            /\ keys' = keys + 1
            /\ emits' = << TypingStart(currentChat) >>
            /\ timers' =
                 Cancel(Cancel(timers, "provider", typingTimeout), "area", typingTimeoutRef)
                 \cup { Timer(keys', "provider", now + TypingHorizon, currentChat, typingTimeout),
                        Timer(keys', "area", now + TypingHorizon, currentChat, typingTimeout) }
            /\ typingTimeout' = keys'
            /\ typingTimeoutRef' = keys'
       ELSE /\ emits' = StopEmits(currentChat, socket)
            /\ timers' = Cancel(TimersAfterStop(timers, currentChat, typingTimeout),
                                "area", typingTimeoutRef)
            /\ typingTimeout' = TimeoutAfterStop(typingTimeout, currentChat, typingTimeout)
            /\ typingTimeoutRef' = NoTimer
            /\ UNCHANGED keys
  /\ lastEvent' = Ev("input", currentChat, Undef, << text >>)
  /\ UNCHANGED << authVars, sockVars, currentChat, chats, messages, loadVars, typingVars,
                  now, calls, roomVars, peopleVars, connectErrorListeners, orphans >>

\* A timeout fires, not before it is due and after those armed before it
\* (all have the same delay; startTyping arms its timeout before ChatArea
\* arms its own): the stopTyping of the render that armed it; ChatArea's
\* also empties typingTimeoutRef.
ArmedBefore(u, t) ==
  u.n < t.n \/ (u.n = t.n /\ u.owner = "provider" /\ t.owner = "area")

TimerFires(t) ==
  /\ t \in timers /\ t.due <= now
  /\ \A u \in timers : ~ArmedBefore(u, t)
  /\ emits' = StopEmits(t.chat, socket)
  /\ timers' = TimersAfterStop(timers \ {t}, t.chat, t.prev)
  /\ typingTimeout' = TimeoutAfterStop(typingTimeout, t.chat, t.prev)
  /\ typingTimeoutRef' = IF t.owner = "area" THEN NoTimer ELSE typingTimeoutRef
  /\ lastEvent' = Ev("timeout", t.chat, Undef, << t.owner, t.n, t.due >>)
  /\ UNCHANGED << authVars, sockVars, currentChat, chats, messages, loadVars, typingVars,
                  now, calls, roomVars, keys, peopleVars, connectErrorListeners, orphans >>

AllTimers ==
  { Timer(n, owner, due, chat, prev) :
      n \in 1..MaxKeys, owner \in {"provider", "area"}, due \in 0..MaxTime,
      chat \in Chats, prev \in 0..MaxKeys }

\* One unit of local time passes, once the timeouts that are due have fired.
\* No timer of the provider watches the typing lists.
Tick ==
  /\ now < MaxTime
  /\ \A t \in timers : t.due > now
  /\ now' = now + 1
  /\ NoEmit
  /\ NoEvent
  /\ UNCHANGED << authVars, sockVars, currentChat, chats, messages, loadVars,
                  typingVars, calls, localVars >>

\* --------------------------------------------------------- specifications
\* Spec takes every operation.  The specifications below each keep the
\* operations that write the variables one group of properties reads, with
\* the session and (where page loads are started) their failure, so that
\* each state space can be explored in full.
Session == AuthInit \/ GetMeOk \/ UpdateUser \/ ClearSession \/ SocketConnected

\* The timeline: page loads and new_message events.
NextSync ==
  \/ Session
  \/ \E c \in Chats : SelectChat(c)
  \/ LoadEffectRerun
  \/ LoadOlder
  \/ \E i \in 1..MaxInFlight, ids \in AllPages, shape \in WireShapes :
       LoadResolve(i, ids, shape)
  \/ \E i \in 1..MaxInFlight : LoadFail(i)
  \/ \E id \in MsgIds, shape \in WireShapes : handleNewMessage(id, shape)

SpecSync == Init /\ [][NextSync]_vars

\* Live events alone: the chat list and new_message events; every page load
\* fails, so the timeline holds what new_message events put there.
NextEvents ==
  \/ Session
  \/ \E S \in {Chats, {"c1"}} : LoadChatsOk(S, 0)
  \/ \E c \in Chats : SelectChat(c)
  \/ \E i \in 1..MaxInFlight : LoadFail(i)
  \/ \E id \in MsgIds, shape \in WireShapes : handleNewMessage(id, shape)

SpecEvents == Init /\ [][NextEvents]_vars

\* The rooms: the active chat, the socket and the session.
NextRoom ==
  \/ Session \/ TransportDrop \/ Reconnected
  \/ \E c \in Chats : SelectChat(c)
  \/ \E i \in 1..MaxInFlight : LoadFail(i)

SpecRoom == Init /\ [][NextRoom]_vars

\* The typing lists: user_typing events and the clock.
NextTyping ==
  \/ Session
  \/ \E c \in Chats, u \in Users, t \in BOOLEAN : handleUserTyping(c, u, t)
  \/ Tick

SpecTyping == Init /\ [][NextTyping]_vars

\* The records of the timeline: the timeline is filled by page loads (the
\* session is set up and stays); one specification per kind of event that
\* rewrites records.
Feed ==
  \/ AuthInit \/ GetMeOk \/ SocketConnected
  \/ \E c \in Chats : SelectChat(c)
  \/ LoadOlder
  \/ \E i \in 1..MaxInFlight, ids \in AllPages, shape \in WireShapes :
       LoadResolve(i, ids, shape)

\* Page loads alone, with both outcomes.
NextPages ==
  \/ Feed
  \/ LoadEffectRerun
  \/ \E i \in 1..MaxInFlight : LoadFail(i)

SpecPages == Init /\ [][NextPages]_vars

NextEdited ==
  \/ Feed
  \/ \E id \in MsgIds, shape \in EventShapes, text \in Texts :
       handleMessageEdited(id, shape, text)

SpecEdited == Init /\ [][NextEdited]_vars

NextDeleted ==
  \/ Feed
  \/ \E id \in MsgIds, u \in Users : handleMessageDeleted(id, u)

SpecDeleted == Init /\ [][NextDeleted]_vars

\* message_deleted events and the clock, on a timeline of first pages.
NextDeletedAt ==
  \/ AuthInit \/ GetMeOk \/ SocketConnected
  \/ \E c \in Chats : SelectChat(c)
  \/ \E i \in 1..MaxInFlight, ids \in AllPages, shape \in WireShapes :
       LoadResolve(i, ids, shape)
  \/ \E id \in MsgIds, u \in Users : handleMessageDeleted(id, u)
  \/ Tick

SpecDeletedAt == Init /\ [][NextDeletedAt]_vars

NextReactions ==
  \/ Feed
  \/ \E id \in MsgIds, list \in ReactionLists : handleReactionAdded(id, list)
  \/ \E id \in MsgIds, list \in ReactionLists : handleReactionRemoved(id, list)

SpecReactions == Init /\ [][NextReactions]_vars

NextReceipts ==
  \/ Feed
  \/ \E id \in MsgIds, u \in Users, t \in ReadTimes : handleMessageRead(id, u, t)

SpecReceipts == Init /\ [][NextReceipts]_vars

\* Sending: the chat list and sends; every page load fails, so the timeline
\* holds what sends put there.
NextSend ==
  \/ AuthInit \/ GetMeOk \/ SocketConnected
  \/ LoadChatsOk(Chats, 0)
  \/ \E c \in Chats : SelectChat(c)
  \/ \E i \in 1..MaxInFlight : LoadFail(i)
  \/ \E id \in MsgIds : sendMessage(id)
  \/ \E i \in 1..MaxCalls, shape \in WireShapes : SendResolve(i, shape)
  \/ \E i \in 1..MaxCalls : CallFail(i)

SpecSend == Init /\ [][NextSend]_vars

\* Sends and the new_message events of the server, with handlers that may be
\* registered again while a chat is open.
NextEcho ==
  \/ AuthInit \/ GetMeOk \/ SocketConnected \/ UpdateUser
  \/ \E c \in Chats : SelectChat(c)
  \/ \E i \in 1..MaxInFlight : LoadFail(i)
  \/ \E id \in MsgIds : sendMessage(id)
  \/ \E i \in 1..MaxCalls, shape \in WireShapes : SendResolve(i, shape)
  \/ \E i \in 1..MaxCalls : CallFail(i)
  \/ \E id \in MsgIds, shape \in EventShapes : handleNewMessage(id, shape)

SpecEcho == Init /\ [][NextEcho]_vars

\* Commands and fetches with both outcomes, in one conversation.
NextCommands ==
  \/ AuthInit \/ GetMeOk \/ SocketConnected
  \/ LoadChatsOk(Chats, 0)
  \/ SelectChat("c1")
  \/ LoadEffectRerun
  \/ \E i \in 1..MaxInFlight, ids \in AllPages, shape \in WireShapes :
       LoadResolve(i, ids, shape)
  \/ \E i \in 1..MaxInFlight : LoadFail(i)
  \/ \E id \in MsgIds : sendMessage(id)
  \/ \E i \in 1..MaxCalls, shape \in WireShapes : SendResolve(i, shape)
  \/ \E id \in MsgIds, text \in Texts : editMessage(id, text)
  \/ \E id \in MsgIds : deleteMessage(id)
  \/ \E i \in 1..MaxCalls : CallFail(i)
  \/ \E id \in MsgIds, ok \in BOOLEAN : addReaction(id, ok)
  \/ \E id \in MsgIds, ok \in BOOLEAN : removeReaction(id, ok)
  \/ \E id \in MsgIds, ok \in BOOLEAN : markAsRead(id, ok)

SpecCommands == Init /\ [][NextCommands]_vars

\* The same with one conversation to open.
FeedOne ==
  \/ AuthInit \/ GetMeOk \/ SocketConnected
  \/ SelectChat("c1")
  \/ LoadOlder
  \/ \E i \in 1..MaxInFlight, ids \in AllPages, shape \in WireShapes :
       LoadResolve(i, ids, shape)

\* Edits of the open conversation's messages, with both outcomes.
NextEdit ==
  \/ FeedOne
  \/ \E id \in MsgIds, text \in Texts : editMessage(id, text)
  \/ \E i \in 1..MaxCalls, shape \in WireShapes, text \in Texts : EditResolve(i, shape, text)
  \/ \E i \in 1..MaxCalls : CallFail(i)

SpecEdit == Init /\ [][NextEdit]_vars

\* Deletes of the open conversation's messages, with both outcomes, and the
\* message_deleted events of the server.
NextDelete ==
  \/ FeedOne
  \/ \E id \in MsgIds : deleteMessage(id)
  \/ \E i \in 1..MaxCalls : DeleteResolve(i)
  \/ \E i \in 1..MaxCalls : CallFail(i)
  \/ \E id \in MsgIds, u \in Users : handleMessageDeleted(id, u)

SpecDelete == Init /\ [][NextDelete]_vars

\* Reactions and receipts: the fire-and-forget commands and the events that
\* carry the server's lists.
NextReact ==
  \/ FeedOne
  \/ \E id \in MsgIds, ok \in BOOLEAN : addReaction(id, ok)
  \/ \E id \in MsgIds, ok \in BOOLEAN : removeReaction(id, ok)
  \/ \E id \in MsgIds, ok \in BOOLEAN : markAsRead(id, ok)
  \/ \E id \in MsgIds : handleReactionAdded(id, << Reaction("+1", << "u8" >>) >>)
  \/ \E id \in MsgIds : handleReactionRemoved(id, << >>)
  \/ \E id \in MsgIds, t \in ReadTimes : handleMessageRead(id, "u8", t)

SpecReact == Init /\ [][NextReact]_vars

\* Presence: the chat list and the open chat as the server sends them, and
\* user_status_changed events.
NextPresence ==
  \/ AuthInit \/ GetMeOk \/ SocketConnected
  \/ \E S \in {Chats, {"c2"}}, st \in [Users -> Profiles] : LoadChats(S, 0, st)
  \/ \E st \in [Users -> Profiles] : OpenChat("c1", st)
  \/ \E i \in 1..MaxInFlight : LoadFail(i)
  \/ \E u \in Users, profile \in Profiles : handleUserStatusChanged(u, profile)

SpecPresence == Init /\ [][NextPresence]_vars

\* Previews: the chat list, the timeline of the open chat and chat_updated
\* events.
NextPreview ==
  \/ AuthInit \/ GetMeOk \/ SocketConnected
  \/ \E S \in {Chats, {"c1"}}, n \in 0..MaxUnread : LoadChatsOk(S, n)
  \/ SelectChat("c1")
  \/ \E i \in 1..MaxInFlight, ids \in AllPages, shape \in WireShapes :
       LoadResolve(i, ids, shape)
  \/ \E c \in Chats, id \in MsgIds \cup {Undef}, shape \in EventShapes, t \in UpdateTimes :
       handleChatUpdated(c, id, shape, t)

SpecPreview == Init /\ [][NextPreview]_vars

\* Local typing: inputs, sends with both outcomes, timeouts and the clock.
NextKeys ==
  \/ AuthInit \/ GetMeOk \/ SocketConnected
  \/ \E c \in Chats : SelectChat(c)
  \/ \E text \in {"x", ""} : handleTyping(text)
  \/ \E id \in {"m1", "n1"} : sendMessage(id)
  \/ \E i \in 1..MaxCalls, shape \in EventShapes : SendResolve(i, shape)
  \/ \E i \in 1..MaxCalls : CallFail(i)
  \/ \E t \in AllTimers : TimerFires(t)
  \/ Tick

SpecKeys == Init /\ [][NextKeys]_vars

\* The event loop runs a timeout that is due, and time passes.
SpecKeysFair ==
  /\ Init /\ [][NextKeys]_vars
  /\ WF_vars(\E t \in AllTimers : TimerFires(t))
  /\ WF_vars(Tick)

\* Records that carry no message id: a new_message event and a send
\* result whose record has no _id (the normalizer copies the field as it is).
NextMalformed ==
  \/ Session
  \/ SelectChat("c1")
  \/ \E id \in {"m1", Undef}, shape \in EventShapes : handleNewMessage(id, shape)
  \/ sendMessage(Undef)
  \/ \E i \in 1..MaxCalls, shape \in EventShapes : SendResolve(i, shape)
  \/ \E i \in 1..MaxCalls : CallFail(i)

SpecMalformed == Init /\ [][NextMalformed]_vars

\* Delivery statuses: pages, edit events and edit responses whose records
\* carry each status.
NextStatus ==
  \/ AuthInit \/ GetMeOk \/ SocketConnected
  \/ SelectChat("c1")
  \/ \E i \in 1..MaxInFlight, ids \in AllPages, shape \in StatusShapes :
       LoadResolve(i, ids, shape)
  \/ \E i \in 1..MaxInFlight : LoadFail(i)
  \/ \E id \in {"m1", "m2"}, shape \in StatusShapes : handleMessageEdited(id, shape, "yo")
  \/ \E id \in {"m1", "m2"} : editMessage(id, "yo")
  \/ \E i \in 1..MaxCalls, shape \in StatusShapes : EditResolve(i, shape, "yo")
  \/ \E i \in 1..MaxCalls : CallFail(i)

SpecStatus == Init /\ [][NextStatus]_vars

\* The socket objects: session bootstrap, register, logout, the transport.
NextSockets ==
  \/ Session \/ RegisterOk \/ TransportDrop \/ Reconnected
  \/ \E c \in Chats : SelectChat(c)
  \/ \E i \in 1..MaxInFlight : LoadFail(i)

SpecSockets == Init /\ [][NextSockets]_vars

Next == NextSync \/ NextEvents \/ NextRoom \/ NextTyping
        \/ NextEdited \/ NextDeleted \/ NextDeletedAt \/ NextReactions \/ NextReceipts
        \/ NextPages \/ NextSend \/ NextEcho \/ NextCommands
        \/ NextEdit \/ NextDelete \/ NextReact \/ NextPresence \/ NextPreview
        \/ NextKeys \/ NextMalformed \/ NextStatus \/ NextSockets
Spec == Init /\ [][Next]_vars


\* ----------------------------------------------------------------- claims
NoDuplicateIds(s) == \A i, j \in DOMAIN s : i # j => s[i]._id # s[j]._id
SortedByKey(s) == \A i, j \in DOMAIN s : i < j => KeyLess(s[i], s[j])

\* C1: whatever new_message events are delivered, and however often each is
\* redelivered, the timeline holds every message id at most once.
\* (SpecEvents: the timeline is filled by new_message events alone.)
C1_EachIdOnce == NoDuplicateIds(messages)

\* C2: under every interleaving of page loads (page 1 or an older page) and
\* new_message events the timeline is sorted ascending by (creationTime, id)
\* and holds no id twice.
C2_SortedNoDuplicates == SortedByKey(messages) /\ NoDuplicateIds(messages)

\* C3: a page load that resolves after the active conversation moved away
\* from the conversation it was started for is discarded: the step that
\* resolves it leaves the timeline as it was.
C3_StaleLoadDiscarded ==
  [][ \A i \in DOMAIN loads :
        (loads' = RemoveAt(loads, i) /\ loads[i].chatId # currentChat)
          => messages' = messages ]_vars

\* C4: a new_message event for a conversation of the list leaves that
\* conversation's unread counter alone when the conversation is the active
\* one, and adds exactly 1 to it when it is not.
C4_UnreadOnlyInBackground ==
  [][ (lastEvent'.op = "new_message" /\ lastEvent'.chat \in DOMAIN chats)
        => chats'[lastEvent'.chat].unreadCount =
             IF lastEvent'.chat = currentChat
               THEN chats[lastEvent'.chat].unreadCount
               ELSE chats[lastEvent'.chat].unreadCount + 1 ]_vars

\* C5: the rooms joined and not left are at most one, and when there is one
\* it is the room of the active conversation.
C5_OneRoomOfActiveChat ==
  /\ Cardinality(subscribed) <= 1
  /\ subscribed # {} => (currentChat # NoChat /\ subscribed = {Room(currentChat)})

\* C6: join_chat is emitted only when no other room is joined and not left,
\* so the leave_chat of the old room comes first; a change of the active
\* conversation on a connected channel with another room recorded emits
\* leave_chat for that room and then join_chat for the new one.
C6_LeaveBeforeJoin ==
  [][ /\ \A i \in DOMAIN emits' :
           emits'[i].ev = "join_chat"
             => ApplyEmits(subscribed, SubSeq(emits', 1, i - 1)) \subseteq {emits'[i].room}
      /\ ( /\ isConnected(socket)
           /\ currentChat' # currentChat /\ currentChat' # NoChat
           /\ lastRoomRef # NoChat /\ lastRoomRef # currentChat' )
           => emits' = << LeaveChat(lastRoomRef), JoinChat(currentChat') >> ]_vars

C6_Switched ==
  /\ emits = << LeaveChat("c1"), JoinChat("c2") >>
  /\ subscribed = {Room("c2")} /\ currentChat = "c2"

\* C7: the step in which the channel becomes connected (first connection or
\* reconnection) while a conversation is active emits join_chat for it.
C7_ResubscribeOnConnect ==
  [][ (~isConnected(socket) /\ isConnected(socket') /\ currentChat' # NoChat)
        => \E i \in DOMAIN emits' : emits'[i] = JoinChat(currentChat') ]_vars

\* C8: when the session is torn down and the channel closed, the handlers
\* are off the channel and no room is left joined; and once the session is
\* over no event reaches a handler.
C8_TeardownBeforeClose ==
  [][ /\ (socket # "null" /\ socket' = "null") => (~listening' /\ subscribed' = {})
      /\ authPc' = "out" => ~Delivering' ]_vars

\* C9: a user whose last typing_start for a conversation is older than the
\* horizon, with no typing_stop since, is no longer in that conversation's
\* typing list.
C9_TypingExpires ==
  \A c \in Chats, u \in Users :
    u \in Range(typingUsers[c]) => now - typedAt[c][u] <= TypingHorizon

\* C10: the step that handles a typing_stop for (conversation, user) leaves
\* the user out of that conversation's typing list.
C10_StopRemoves ==
  [][ lastEvent'.op = "typing_stop"
        => lastEvent'.id \notin Range(typingUsers'[lastEvent'.chat]) ]_vars

C10_StoppedLate ==
  /\ lastEvent = Op("typing_stop", "c1", "u8")
  /\ typedAt["c1"]["u8"] > 0 /\ now - typedAt["c1"]["u8"] > TypingHorizon
  /\ typingUsers["c1"] = << "u9" >>

\* ---------------------------------------------------- claims: the records
Ids(s) == [k \in DOMAIN s |-> s[k]._id]
Holds(s, id) == \E k \in DOMAIN s : s[k]._id = id

\* C11: the read-receipt list of every message of the timeline holds at most
\* one entry per reader, however often a message_read event is delivered.
C11_OneReceiptPerReader ==
  \A k \in DOMAIN messages :
    \A i, j \in DOMAIN messages[k].readBy :
      i # j => messages[k].readBy[i].user # messages[k].readBy[j].user

\* C13: the step that handles message_deleted{messageId, deletedBy} keeps
\* the length and the order of the timeline, marks every record of that id
\* deleted by deletedBy and changes nothing else of it, and leaves every
\* other record as it was; with no record of that id the timeline is
\* unchanged.
C13_DeleteMarksOnlyTarget ==
  [][ lastEvent'.op = "message_deleted" =>
        /\ Ids(messages') = Ids(messages)
        /\ \A k \in DOMAIN messages :
             IF messages[k]._id = lastEvent'.id
               THEN /\ messages'[k].deleted
                    /\ messages'[k].deletedBy = lastEvent'.arg[1]
                    /\ [messages'[k] EXCEPT !.deleted = messages[k].deleted,
                                            !.deletedBy = messages[k].deletedBy,
                                            !.deletedAt = messages[k].deletedAt]
                         = messages[k]
               ELSE messages'[k] = messages[k]
        /\ ~Holds(messages, lastEvent'.id) => messages' = messages ]_vars

C13_SecondOfTwoDeleted ==
  /\ lastEvent.op = "message_deleted" /\ lastEvent.id = "m2"
  /\ lastEvent.arg = << "u9" >>
  /\ Ids(messages) = << "m1", "m2" >>
  /\ ~messages[1].deleted /\ messages[1].deletedBy = Undef
  /\ messages[2].deleted /\ messages[2].deletedBy = "u9"

\* C14: a message_deleted event that reaches a timeline in which it was
\* applied before (every record of the id is deleted by the same user)
\* leaves the timeline unchanged, deletion time included, whatever the
\* local time is by then.
C14_DeleteIdempotent ==
  [][ ( /\ lastEvent'.op = "message_deleted"
        /\ \A k \in DOMAIN messages :
             messages[k]._id = lastEvent'.id
               => (messages[k].deleted /\ messages[k].deletedBy = lastEvent'.arg[1]) )
        => messages' = messages ]_vars

\* C15: the step that handles message_edited keeps the length and the order
\* of the timeline, puts the event's normalized record in the place of every
\* record of that id and leaves every other record as it was, so that with
\* no record of that id the timeline is unchanged; handling the same event
\* again right away changes nothing.
C15_EditReplacesInPlace ==
  [][ lastEvent'.op = "message_edited" =>
        /\ Ids(messages') = Ids(messages)
        /\ lastEvent'.arg[1]._id = lastEvent'.id
        /\ \A k \in DOMAIN messages :
             messages'[k] = IF messages[k]._id = lastEvent'.id
                              THEN lastEvent'.arg[1] ELSE messages[k]
        /\ ~Holds(messages, lastEvent'.id) => messages' = messages
        /\ lastEvent = lastEvent' => messages' = messages ]_vars

C15_FirstOfTwoEdited ==
  /\ lastEvent.op = "message_edited" /\ lastEvent.id = "m1"
  /\ Ids(messages) = << "m1", "m2" >>
  /\ messages[1].edited /\ messages[1].content = "yo"
  /\ ~messages[2].edited /\ messages[2].content = "hi"

\* C16: the step that handles reaction_added or reaction_removed makes the
\* event's list the reaction list of every record of that id, changes
\* nothing else of it and leaves every other record as it was, so that with
\* no record of that id the timeline is unchanged; handling the same event
\* again right away changes nothing.
C16_ReactionListReplaced ==
  [][ lastEvent'.op \in {"reaction_added", "reaction_removed"} =>
        /\ Ids(messages') = Ids(messages)
        /\ \A k \in DOMAIN messages :
             messages'[k] = IF messages[k]._id = lastEvent'.id
                              THEN [messages[k] EXCEPT !.reactions = lastEvent'.arg]
                              ELSE messages[k]
        /\ ~Holds(messages, lastEvent'.id) => messages' = messages
        /\ lastEvent = lastEvent' => messages' = messages ]_vars

C16_ListShrunk ==
  /\ lastEvent.op = "reaction_removed" /\ lastEvent.id = "m2"
  /\ lastEvent.arg = << Reaction("+1", << "u8" >>) >>
  /\ Ids(messages) = << "m1", "m2" >>
  /\ messages[2].reactions = << Reaction("+1", << "u8" >>) >>
  /\ Len(messages[1].reactions) = 2

\* ------------------------------------------- claims: shells and first pages
\* C12: after the step that handles a new_message naming a conversation, the
\* conversation list holds that conversation, with the message as its
\* preview, whether the list held the conversation before or not.
C12_ShellUpserted ==
  [][ (lastEvent'.op = "new_message" /\ lastEvent'.chat # Undef)
        => /\ lastEvent'.chat \in DOMAIN chats'
           /\ chats'[lastEvent'.chat].lastMessage = lastEvent'.id ]_vars

\* C20: the step in which a page-1 load resolves makes the timeline exactly
\* the normalized batch of that load, whatever the timeline held before.
C20_FirstPageReplaces ==
  [][ (lastEvent'.op = "load_ok" /\ lastEvent'.arg[1] = 1)
        => /\ messages' = lastEvent'.arg[2]
           /\ \A k \in DOMAIN messages' : messages'[k].chat = lastEvent'.chat ]_vars

C20_SecondChatLoaded ==
  /\ lastEvent.op = "load_ok" /\ lastEvent.chat = "c2" /\ lastEvent.arg[1] = 1
  /\ Ids(messages) = << "n1" >> /\ messages = lastEvent.arg[2]
  /\ lastLoadedChatRef = "c2" /\ currentChat = "c2"

\* -------------------------------------------------- claims: the commands
\* C17: the step in which a fetch or a command fails (loadMessages,
\* sendMessage, editMessage, deleteMessage, addReaction, removeReaction,
\* markAsRead) leaves the timeline and the conversation list as they were
\* and starts nothing: the failed call leaves flight, no call enters it,
\* and after a failed page-1 load of the active conversation the load effect
\* is not due to fetch it again.
C17_FailureChangesNothing ==
  [][ lastEvent'.op \in {"failed", "load_failed"} =>
        /\ messages' = messages
        /\ chats' = chats
        /\ Len(loads') <= Len(loads) /\ Len(calls') <= Len(calls)
        /\ lastEvent'.op = "load_failed" =>
             /\ Len(loads') < Len(loads)
             /\ (lastEvent'.arg[1] = 1 /\ currentChat' = lastEvent'.chat)
                  => lastLoadedChatRef' = currentChat'
        /\ (lastEvent'.op = "failed"
            /\ lastEvent'.arg[1] \in {"sendMessage", "editMessage", "deleteMessage"})
             => Len(calls') < Len(calls) ]_vars

C17_SendFailed ==
  /\ lastEvent.op = "failed" /\ lastEvent.id = "m2"
  /\ lastEvent.arg = << "sendMessage" >>
  /\ Ids(messages) = << "m1" >> /\ calls = << >>
  /\ "c1" \in DOMAIN chats /\ chats["c1"].lastMessage = "m1"

\* C18: the step in which a send resolves puts the returned message at the
\* end of the timeline when the conversation it was sent to is the active
\* one, and into no other conversation's timeline, and makes it the preview
\* (last message and lastMessageAt) of that conversation in the list; the
\* step that starts a send leaves the timeline alone.
C18_SendInsertsIntoItsChat ==
  [][ /\ lastEvent'.op = "send_ok" =>
           /\ lastEvent'.arg[1]._id = lastEvent'.id
           /\ lastEvent'.arg[1].chat = lastEvent'.chat
           /\ messages' = IF lastEvent'.chat = currentChat
                            THEN Append(messages, lastEvent'.arg[1])
                            ELSE messages
           /\ lastEvent'.chat \in DOMAIN chats =>
                /\ chats'[lastEvent'.chat].lastMessage = lastEvent'.id
                /\ chats'[lastEvent'.chat].lastMessageAt = lastEvent'.arg[1].createdAt
      /\ Len(calls') > Len(calls) => messages' = messages ]_vars

\* C19: a send that resolved and the new_message event for the id it
\* returned leave that id in the timeline exactly once, in either order:
\* after the step in which the send resolves (the event may have come
\* first), and after the event handled right after that step.
Count(s, id) == Cardinality({ k \in DOMAIN s : s[k]._id = id })

C19_SentOnce ==
  [][ /\ lastEvent'.op = "send_ok" => Count(messages', lastEvent'.id) = 1
      /\ ( /\ lastEvent.op = "send_ok" /\ lastEvent'.op = "new_message"
           /\ lastEvent'.id = lastEvent.id )
           => Count(messages', lastEvent'.id) = 1 ]_vars

\* ------------------------------------------------ claims: older pages
\* C21: the step in which the load of an older page (page 2) resolves keeps
\* the timeline it found as the end of the new timeline, in the same order,
\* and adds no record of an id the timeline already held: every id the
\* timeline held is held as often as before (also when the page was loaded
\* before or overlaps the timeline).
C21_OlderPagePrependsNew ==
  [][ (lastEvent'.op = "load_ok" /\ lastEvent'.arg[1] > 1)
        => /\ Len(messages') >= Len(messages)
           /\ SubSeq(messages', Len(messages') - Len(messages) + 1, Len(messages'))
                = messages
           /\ \A k \in DOMAIN messages :
                Count(messages', messages[k]._id) = Count(messages, messages[k]._id) ]_vars

\* --------------------------------------------- claims: edits and deletes
\* C22: the step in which an edit resolves keeps the length and the order of
\* the timeline, puts the normalized record of the transport's response (its
\* text, not the text typed into the call) in the place of every record of
\* that id and leaves every other record as it was.
C22_EditTakesResponse ==
  [][ lastEvent'.op = "edit_ok" =>
        LET res   == lastEvent'.arg[1]
            call  == lastEvent'.arg[2]
            fresh == normalizeMessage(res, IF call.chat = NoChat THEN Undef ELSE call.chat)
        IN /\ Ids(messages') = Ids(messages)
           /\ fresh.content = res.m.content.v
           /\ \A k \in DOMAIN messages :
                messages'[k] = IF messages[k]._id = lastEvent'.id THEN fresh
                               ELSE messages[k] ]_vars

C22_ServerTextWins ==
  /\ lastEvent.op = "edit_ok" /\ lastEvent.id = "m1"
  /\ lastEvent.arg[2].text = "yo" /\ lastEvent.arg[1].m.content.v = "hi"
  /\ Ids(messages) = << "m1", "m2" >>
  /\ messages[1].edited /\ messages[1].content = "hi"
  /\ ~messages[2].edited

\* C23: the step in which a delete resolves marks every record of that id
\* deleted, there and then, changes nothing else of it and leaves the rest of
\* the timeline as it was; a message_deleted event for an id whose records
\* a resolved delete has marked leaves them deleted, touches nothing of them
\* but the deletion marking (deleted, deletedBy, deletedAt) and leaves the
\* rest of the timeline as it was.
C23_DeleteMarksAtOnce ==
  [][ /\ lastEvent'.op = "delete_ok" =>
           /\ Ids(messages') = Ids(messages)
           /\ \A k \in DOMAIN messages :
                messages'[k] = IF messages[k]._id = lastEvent'.id
                                 THEN [messages[k] EXCEPT !.deleted = TRUE]
                                 ELSE messages[k]
      /\ lastEvent'.op = "message_deleted" =>
           /\ Ids(messages') = Ids(messages)
           /\ \A k \in DOMAIN messages :
                IF messages[k]._id = lastEvent'.id
                  THEN messages[k].deleted =>
                         /\ messages'[k].deleted
                         /\ [messages'[k] EXCEPT !.deletedBy = messages[k].deletedBy,
                                                 !.deletedAt = messages[k].deletedAt]
                              = messages[k]
                  ELSE messages'[k] = messages[k] ]_vars

C23_DeletedWithoutEcho ==
  /\ lastEvent.op = "delete_ok" /\ lastEvent.id = "m2"
  /\ Ids(messages) = << "m1", "m2" >>
  /\ messages[2].deleted /\ messages[2].deletedBy = Undef /\ messages[2].deletedAt = NoTime
  /\ ~messages[1].deleted

ListRecordsOf(cs, u) ==
  UNION { { cs[c].participants[k] : k \in { j \in DOMAIN cs[c].participants :
                                              cs[c].participants[j]._id = u } }
          \cup (IF cs[c].otherParticipant._id = u THEN {cs[c].otherParticipant} ELSE {})
          : c \in DOMAIN cs }
OpenRecordsOf(obj, u) ==
  { obj.participants[k] : k \in { j \in DOMAIN obj.participants :
                                    obj.participants[j]._id = u } }
  \cup (IF obj.otherParticipant._id = u THEN {obj.otherParticipant} ELSE {})

\* C25: the step that handles user_status_changed for a user leaves the user
\* in the online set exactly when the status is "online" and leaves the
\* other users' membership alone; no other step changes the online set; and
\* after every step a user of whom the chat list holds a participant record
\* is in the online set exactly when that record's status is "online".
C25_OnlineSetTracksStatus ==
  [][ /\ lastEvent'.op = "user_status_changed" =>
           /\ (lastEvent'.id \in onlineUsers') <=> (lastEvent'.arg[1].status = "online")
           /\ onlineUsers' \ {lastEvent'.id} = onlineUsers \ {lastEvent'.id}
      /\ lastEvent'.op # "user_status_changed" => onlineUsers' = onlineUsers
      /\ \A u \in Users : \A p \in ListRecordsOf(chats', u) :
           (u \in onlineUsers') <=> (p.status = "online") ]_vars

\* C26: after the step that handles user_status_changed for user U every
\* participant record of U the client holds (chat list and currentChat
\* object, participant lists and otherParticipant) carries the event's
\* status, statusMessage and lastSeen, and the participant records of every
\* other user are as they were before.
C26_StatusReachesEveryRecord ==
  [][ lastEvent'.op = "user_status_changed" =>
        LET U == lastEvent'.id
            profile == lastEvent'.arg[1]
        IN /\ \A p \in ListRecordsOf(chats', U) \cup OpenRecordsOf(currentChatObj', U) :
                p = Participant(U, profile)
           /\ \A v \in (Users \cup {"u0"}) \ {U} :
                /\ ListRecordsOf(chats', v) = ListRecordsOf(chats, v)
                /\ OpenRecordsOf(currentChatObj', v) = OpenRecordsOf(currentChatObj, v) ]_vars

\* ------------------------------------------------------ claims: previews
\* C27: the step that handles chat_updated changes, in the chat list, the
\* named chat alone and of it the preview (when the event carries a message)
\* and lastMessageAt alone: unread counters, the other chats and the
\* timeline are as before; handling the same event again right away changes
\* nothing.
C27_PreviewOfNamedChatOnly ==
  [][ lastEvent'.op = "chat_updated" =>
        /\ DOMAIN chats' = DOMAIN chats
        /\ \A c \in DOMAIN chats :
             IF c = lastEvent'.chat
               THEN /\ chats'[c].lastMessageAt = lastEvent'.arg[1]
                    /\ chats'[c].lastMessage =
                         IF lastEvent'.id # Undef THEN lastEvent'.id ELSE chats[c].lastMessage
                    /\ [chats'[c] EXCEPT !.lastMessage = chats[c].lastMessage,
                                         !.lastMessageAt = chats[c].lastMessageAt] = chats[c]
               ELSE chats'[c] = chats[c]
        /\ messages' = messages
        /\ lastEvent = lastEvent' => chats' = chats ]_vars

C27_SecondPreviewMoved ==
  /\ lastEvent.op = "chat_updated" /\ lastEvent.chat = "c2" /\ lastEvent.id = "n1"
  /\ DOMAIN chats = Chats
  /\ chats["c2"].lastMessage = "n1" /\ chats["c2"].lastMessageAt = 3
  /\ chats["c2"].unreadCount = 1
  /\ chats["c1"].lastMessage = Undef /\ chats["c1"].unreadCount = 1
  /\ Ids(messages) = << "m2" >>

\* ---------------------------------------------------- claims: listeners
\* C30: no listener outlives the teardown of the setup that registered it:
\* the socket object carries no connect_error listener of a setup that was
\* torn down.
C30_NoDanglingListeners == "torn" \notin connectErrorListeners

\* ------------------------------------------------- claims: local typing
\* C28: the step that handles a typing input emits typing_start for the
\* active conversation and leaves a timeout armed for it, due one horizon
\* later; a timeout that fires does so no earlier than it is due, emits
\* typing_stop for its conversation and is one the latest typing input
\* armed (no timeout superseded by a later input fires); and the timeouts
\* the latest typing input armed for a conversation stay armed until a step
\* that emits typing_stop for that conversation or handles another input (a
\* text or a clearing of the field).  Time does not pass a timeout that is
\* due (Tick), so under SpecKeysFair the last part is the eventual
\* typing_stop.
TypingArmed(c, k) == keys = k /\ \E t \in timers : t.n = k /\ t.chat = c

C28_AutoStopAfterHorizon ==
  [][ /\ (lastEvent'.op = "input" /\ lastEvent'.arg # << "" >>) =>
           /\ emits' = << TypingStart(currentChat) >>
           /\ \E t \in timers' :
                t.n = keys' /\ t.chat = currentChat /\ t.due = now + TypingHorizon
      /\ lastEvent'.op = "timeout" =>
           /\ emits' = << TypingStop(lastEvent'.chat) >>
           /\ now >= lastEvent'.arg[3]
           /\ lastEvent'.arg[2] = keys
      /\ \A c \in Chats, k \in 1..MaxKeys :
           (TypingArmed(c, k) /\ ~TypingArmed(c, k)') =>
              \/ TypingStop(c) \in Range(emits')
              \/ lastEvent'.op = "input" ]_vars

\* C29: the step in which the input is cleared, and the step in which a send
\* completes, emit typing_stop for the conversation and leave no timeout
\* armed, so that none fires later.
C29_ClearOrSendCancelsTimers ==
  [][ ( \/ (lastEvent'.op = "input" /\ lastEvent'.arg = << "" >>)
        \/ lastEvent'.op = "send_ok" )
        => /\ emits' = << TypingStop(lastEvent'.chat) >>
           /\ timers' = {} ]_vars

\* ------------------------------------------------- claims: malformed records
\* C31: no record without a message id is in the timeline (the normalizer
\* would have refused it).
C31_NoRecordWithoutId == \A k \in DOMAIN messages : messages[k]._id # Undef

\* ------------------------------------------------ claims: delivery status
\* C32: no step lowers the delivery status of a message that stays in the
\* timeline: where a position of the timeline holds the same id before and
\* after a step, its status after is not below its status before.
C32_StatusNeverLowered ==
  [][ \A k \in DOMAIN messages \cap DOMAIN messages' :
        messages'[k]._id = messages[k]._id =>
          StatusRank(messages'[k].status) >= StatusRank(messages[k].status) ]_vars

\* --------------------------------------------- claims: the foreground chat
\* C33: a new_message event for the conversation that is active when the
\* event is delivered is appended to the timeline and leaves that
\* conversation's unread counter alone, whatever conversation was active
\* when the handlers were registered.
C33_ForegroundAtDelivery ==
  [][ (lastEvent'.op = "new_message" /\ currentChat # NoChat
       /\ lastEvent'.chat = currentChat)
        => /\ Len(messages') = Len(messages) + 1
           /\ messages'[Len(messages')]._id = lastEvent'.id
           /\ currentChat \in DOMAIN chats =>
                chats'[currentChat].unreadCount = chats[currentChat].unreadCount ]_vars

\* C34: every message in the timeline belongs to the active conversation.
C34_TimelineOfActiveChat ==
  \A k \in DOMAIN messages : messages[k].chat = currentChat

\* C35: a new_message event for a conversation other than the active one
\* leaves the timeline unchanged, and leaves every conversation of the list
\* other than the named one unchanged.
C35_BackgroundMessageFrame ==
  [][ (lastEvent'.op = "new_message" /\ lastEvent'.chat # currentChat)
        => /\ messages' = messages
           /\ DOMAIN chats' = DOMAIN chats
           /\ \A c \in DOMAIN chats : c # lastEvent'.chat => chats'[c] = chats[c] ]_vars

\* ------------------------------------------------ claims: the room record
\* C36: every step keeps lastRoomRef the room of the most recent join_chat
\* emission (it changes exactly when join_chat is emitted, to the room
\* joined, so the rooms joined and not left are that room alone); leave_chat
\* is emitted only for a room joined and not left; and join_chat and
\* leave_chat are emitted only on a connected channel.
C36_RoomRecordFollowsJoins ==
  [][ /\ \A i \in DOMAIN emits' :
           emits'[i].ev \in {"join_chat", "leave_chat"} => isConnected(socket')
      /\ \A i \in DOMAIN emits' :
           emits'[i].ev = "leave_chat"
             => emits'[i].room \in ApplyEmits(subscribed, SubSeq(emits', 1, i - 1))
      /\ LET joins == { i \in DOMAIN emits' : emits'[i].ev = "join_chat" }
         IN IF joins = {}
              THEN lastRoomRef' = lastRoomRef
              ELSE \E i \in joins : /\ \A j \in joins : j <= i
                                    /\ emits'[i].room = Room(lastRoomRef')
      /\ subscribed' = IF lastRoomRef' = NoChat THEN {} ELSE {Room(lastRoomRef')} ]_vars

C36_SwitchedBack ==
  /\ emits = << LeaveChat("c2"), JoinChat("c1") >>
  /\ lastRoomRef = "c1" /\ subscribed = {Room("c1")}
  /\ isConnected(socket)

\* ---------------------------------------------- claims: the typing lists
\* C37: after every step each conversation's typing list holds a user at
\* most once, and the step that handles a user_typing event for a
\* conversation leaves the typing list of every other conversation as it
\* was.
C37_TypingListsAreSets ==
  [][ /\ \A c \in Chats : \A i, j \in DOMAIN typingUsers'[c] :
           i # j => typingUsers'[c][i] # typingUsers'[c][j]
      /\ lastEvent'.op \in {"typing_start", "typing_stop"} =>
           \A c \in Chats : c # lastEvent'.chat => typingUsers'[c] = typingUsers[c] ]_vars

C37_StartedAgain ==
  /\ lastEvent = Op("typing_start", "c1", "u8")
  /\ typingUsers["c1"] = << "u9", "u8" >> /\ typingUsers["c2"] = << "u8" >>
  /\ typedAt["c1"]["u9"] > 0 /\ typedAt["c1"]["u8"] > typedAt["c1"]["u9"]
  /\ typedAt["c2"]["u8"] < typedAt["c1"]["u9"]

\* ------------------------------------------------ claims: the loading flag
\* C38: isLoadingMessages is true exactly when a page load is in flight.
C38_FlagTracksLoads == isLoadingMessages <=> (loads # << >>)

\* ------------------------------------------------------ claims: sockets
\* C39: no socket is left open once SocketService references another one
\* (so none keeps handlers that the service can no longer remove).
C39_NoSocketLeftOpen == orphans = {}

====
